---- MODULE Spec2Model ----
(***************************************************************************)
(* Model of proxy/proxy.go (mongobetween): the Proxy supervisor, its two   *)
(* close-once signals quit and kill, the crash-and-restart wrapper run(),  *)
(* listen(), the accept loop and the per-connection session and            *)
(* force-close watcher goroutines.                                         *)
(*                                                                         *)
(* Every goroutine is a process with a program counter.  The run() call    *)
(* of the user and the run() calls started by the restart path never       *)
(* overlap (the restart is the last act of the deferred recover), so one   *)
(* pair (inst, pc) holds the position of the serve sequence and up holds   *)
(* its upstream handles.  A listener outlives its invocation in the        *)
(* goroutine that waits for p.quit, so listeners are kept per invocation.  *)
(***************************************************************************)
EXTENDS Integers, FiniteSets, TLC

\* ---- bounds ----
MaxPanics == 1        \* panics raised in the serve sequence
MaxConns == 2         \* client connections that arrive over the whole run

MaxRuns == MaxPanics + 1
RunIds == 1..MaxRuns
ConnIds == 1..MaxConns

\* the file-creation mask of the process before Run()
PriorUmask == 18

VARIABLES
    cfg,        \* Proxy.failover # nil, Proxy.network contains "unix"
    quit,       \* TRUE when channel p.quit is closed
    kill,       \* TRUE when channel p.kill is closed
    killMid,    \* some Kill() call is between its p.Shutdown() and close(p.kill)
    escaped,    \* a panic left Shutdown() or Kill() towards its caller
    quitTrans,  \* open -> closed transitions of p.quit
    killTrans,  \* open -> closed transitions of p.kill
    inst,       \* number of the current invocation of run() (0: Run() not called)
    pc,         \* position of the current invocation
    panicking,  \* the current invocation is unwinding because of a panic
    ret,        \* operand of the return statement being executed
    res,        \* what the last run() that returned has returned
    runResult,  \* what Run() has returned to the user
    up,         \* upstream handles m and mf of the current invocation
    ls,         \* per invocation: its listener and its listener-close watcher
    conns,      \* per accepted connection: session, socket, force-close watcher
    nconns,     \* connections accepted so far
    late,       \* the current accept() has accepted a connection with p.quit closed
    wg,         \* sync.WaitGroup counter of the current accept()
    gauge,      \* open_connections background gauge
    umask,      \* file-creation mask of the process
    oldUmask,   \* local oldUmask of the current listen()
    panics,     \* panics raised in the serve sequence
    crashLog,   \* "Crashed" log lines
    sleeps,     \* time.Sleep(restartSleep) calls completed
    restarts    \* "go func() { p.run() }" restarts

sigVars == <<quit, kill, killMid, escaped, quitTrans, killTrans>>
supVars == <<inst, panicking, ret, res, runResult, panics, crashLog, sleeps,
             restarts>>
resVars == <<up, ls, umask, oldUmask>>
connVars == <<conns, nconns, late, wg, gauge>>

vars == <<cfg, pc, sigVars, supVars, resVars, connVars>>

\* ---- channels and panics ----

\* close(ch): the channel is closed afterwards; closing a closed channel panics
CloseChan(closed) == [closed |-> TRUE, panic |-> closed]

\* the deferred "_ = recover()" of Shutdown() and Kill(): is the call still
\* panicking when it returns to its caller (PanicEscapes: without the recover)
PanicEscapes(p) == p
AfterRecover(p) == FALSE

\* ---- Init ----

NoUpstream == [m |-> "none", mcloses |-> 0, mf |-> "none", mfcloses |-> 0,
               fcontacted |-> FALSE]

NoListener == [l |-> "none", lcloses |-> 0, lw |-> "none"]

\* doneFirst: the force-close watcher is in its select, and done was closed
\* while kill was open
NoConn == [st |-> "none", open |-> FALSE, done |-> FALSE, w |-> "none",
           doneFirst |-> FALSE, acted |-> FALSE, warned |-> FALSE,
           opens |-> 0, closes |-> 0]

\* NewProxy(): both channels open.  Two configurations are explored: tcp
\* without a failover, and a unix socket with a failover
Init ==
    /\ cfg \in {[failover |-> FALSE, unix |-> FALSE],
                [failover |-> TRUE, unix |-> TRUE]}
    /\ quit = FALSE /\ kill = FALSE
    /\ killMid = FALSE /\ escaped = FALSE
    /\ quitTrans = 0 /\ killTrans = 0
    /\ inst = 0 /\ pc = "idle" /\ panicking = FALSE /\ ret = "nil"
    /\ res = "none" /\ runResult = "none"
    /\ up = NoUpstream
    /\ ls = [i \in RunIds |-> NoListener]
    /\ conns = [c \in ConnIds |-> NoConn]
    /\ nconns = 0 /\ late = FALSE /\ wg = 0 /\ gauge = 0
    /\ umask = PriorUmask /\ oldUmask = PriorUmask
    /\ panics = 0 /\ crashLog = 0 /\ sleeps = 0 /\ restarts = 0

\* ---- Shutdown() and Kill() ----

\* Shutdown(): close(p.quit) under a deferred recover
Shutdown ==
    /\ LET r == CloseChan(quit) IN
        /\ quit' = r.closed
        /\ quitTrans' = quitTrans + (IF quit THEN 0 ELSE 1)
        /\ escaped' = (escaped \/ AfterRecover(r.panic))
    /\ UNCHANGED <<kill, killMid, killTrans, cfg, pc>>
    /\ UNCHANGED <<supVars, resVars, connVars>>

\* Kill(), first statement: p.Shutdown().  Any number of Kill() calls can be
\* between their two statements; killMid tells whether there is one
\* (KillSkipShutdown: a Kill() that goes to close(p.kill) directly)
KillSkipShutdown ==
    /\ killMid' = TRUE
    /\ UNCHANGED <<quit, quitTrans, escaped, kill, killTrans, cfg, pc>>
    /\ UNCHANGED <<supVars, resVars, connVars>>

KillShutdown ==
    /\ LET r == CloseChan(quit) IN
        /\ quit' = r.closed
        /\ quitTrans' = quitTrans + (IF quit THEN 0 ELSE 1)
        /\ escaped' = (escaped \/ AfterRecover(r.panic))
    /\ killMid' = TRUE
    /\ UNCHANGED <<kill, killTrans, cfg, pc>>
    /\ UNCHANGED <<supVars, resVars, connVars>>

\* Kill(), rest: close(p.kill) under a deferred recover; other Kill() calls
\* may remain between their two statements
KillClose ==
    /\ killMid
    /\ LET r == CloseChan(kill) IN
        /\ kill' = r.closed
        /\ killTrans' = killTrans + (IF kill THEN 0 ELSE 1)
        /\ escaped' = (escaped \/ AfterRecover(r.panic))
    /\ killMid' \in BOOLEAN
    /\ UNCHANGED <<quit, quitTrans, cfg, pc>>
    /\ UNCHANGED <<supVars, resVars, connVars>>

\* ---- run(): connect the upstreams ----

\* Run(): the user's call, p.run()
Run ==
    /\ pc = "idle"
    /\ inst' = 1
    /\ pc' = "connect"
    /\ UNCHANGED <<panicking, ret, res, runResult, panics, crashLog, sleeps,
                   restarts, cfg>>
    /\ UNCHANGED <<sigVars, resVars, connVars>>

\* the deferred call that runs first once the upstream handles are held
UpstreamDefer(u) == IF u.mf = "open" THEN "mfclose" ELSE "mclose"

\* the deferred call that runs after the listener's: Umask(oldUmask) for unix
ListenDefer(u) == IF cfg.unix THEN "umask" ELSE UpstreamDefer(u)

\* m, err := mongo.Connect(p.opts): on error "return err"
Connect ==
    /\ pc = "connect"
    /\ \/ /\ up' = [up EXCEPT !.m = "open"]
          /\ pc' = IF cfg.failover THEN "connect_f" ELSE "listen"
          /\ ret' = ret
       \/ /\ ret' = "errPrimary"
          /\ pc' = "recover"
          /\ up' = up
    /\ UNCHANGED <<inst, panicking, res, runResult, panics, crashLog, sleeps,
                   restarts, cfg, ls, umask, oldUmask>>
    /\ UNCHANGED <<sigVars, connVars>>

\* mf, err = mongo.Connect(p.failover): on error "return err"
ConnectFailover ==
    /\ pc = "connect_f"
    /\ \/ /\ up' = [up EXCEPT !.mf = "open", !.fcontacted = TRUE]
          /\ pc' = "listen"
          /\ ret' = ret
       \/ /\ up' = [up EXCEPT !.fcontacted = TRUE]
          /\ ret' = "errFailover"
          /\ pc' = "mclose"
    /\ UNCHANGED <<inst, panicking, res, runResult, panics, crashLog, sleeps,
                   restarts, cfg, ls, umask, oldUmask>>
    /\ UNCHANGED <<sigVars, connVars>>

\* ---- listen() ----

\* oldUmask := syscall.Umask(0) for a unix network (the unlink changes no
\* state of the model: the outcome of the bind is left open)
ListenUmask ==
    /\ pc = "listen"
    /\ IF cfg.unix
         THEN oldUmask' = umask /\ umask' = 0
         ELSE UNCHANGED <<umask, oldUmask>>
    /\ pc' = "bind"
    /\ UNCHANGED <<cfg, up, ls>>
    /\ UNCHANGED <<sigVars, supVars, connVars>>

\* l, err := net.Listen(): on error "return err"; else defer l.Close(), start
\* the listener-close watcher and enter accept() with a fresh WaitGroup
ListenBind ==
    /\ pc = "bind"
    /\ \/ /\ ls' = [ls EXCEPT ![inst].l = "open", ![inst].lw = "wait"]
          /\ wg' = 0
          /\ late' = FALSE
          /\ pc' = "accept"
          /\ ret' = ret
       \/ /\ ret' = "errBind"
          /\ pc' = ListenDefer(up)
          /\ UNCHANGED <<ls, wg, late>>
    /\ UNCHANGED <<inst, panicking, res, runResult, panics, crashLog, sleeps,
                   restarts, cfg, up, umask, oldUmask, conns, nconns, gauge>>
    /\ UNCHANGED sigVars

\* l.Close(): the listener is closed afterwards
CloseListener(r) == [r EXCEPT !.l = "closed", !.lcloses = r.lcloses + 1]

\* the goroutine of listen(): <-p.quit; l.Close()
\* (WatcherKeepsListener: a watcher that ends without l.Close())
WatcherKeepsListener(i) ==
    /\ ls[i].lw = "wait"
    /\ quit
    /\ ls' = [ls EXCEPT ![i].lw = "done"]
    /\ UNCHANGED <<cfg, pc, up, umask, oldUmask>>
    /\ UNCHANGED <<sigVars, supVars, connVars>>

\* (WatcherWaitsForKill: a watcher that receives from p.kill instead)
WatcherWaitsForKill(i) ==
    /\ ls[i].lw = "wait"
    /\ kill
    /\ ls' = [ls EXCEPT ![i] = [CloseListener(ls[i]) EXCEPT !.lw = "done"]]
    /\ UNCHANGED <<cfg, pc, up, umask, oldUmask>>
    /\ UNCHANGED <<sigVars, supVars, connVars>>

ListenWatcher(i) ==
    /\ ls[i].lw = "wait"
    /\ quit
    /\ ls' = [ls EXCEPT ![i] = [CloseListener(ls[i]) EXCEPT !.lw = "done"]]
    /\ UNCHANGED <<cfg, pc, up, umask, oldUmask>>
    /\ UNCHANGED <<sigVars, supVars, connVars>>

\* ---- accept() ----

\* c, err := l.Accept() returns a connection: wg.Add(1), opened(), and the two
\* goroutines (session and force-close watcher) are started
NewConn == [st |-> "handle", open |-> TRUE, done |-> FALSE, w |-> "select",
            doneFirst |-> FALSE, acted |-> FALSE, warned |-> FALSE,
            opens |-> 1, closes |-> 0]

\* the open_connections gauge of util.StatsdBackgroundGauge: opened events
\* minus closed events
GaugeOpened(g) == g + 1
GaugeClosed(g) == g - 1

\* the body of the accept loop for an accepted connection
\* (AcceptConnUncounted: without the opened() call)
AcceptConnUncounted ==
    /\ pc = "accept"
    /\ ls[inst].l = "open"
    /\ nconns < MaxConns
    /\ nconns' = nconns + 1
    /\ conns' = [conns EXCEPT ![nconns + 1] = NewConn]
    /\ late' = (late \/ quit)
    /\ wg' = wg + 1
    /\ gauge' = gauge
    /\ UNCHANGED <<cfg, pc>>
    /\ UNCHANGED <<sigVars, supVars, resVars>>

AcceptConn ==
    /\ pc = "accept"
    /\ ls[inst].l = "open"
    /\ nconns < MaxConns
    /\ nconns' = nconns + 1
    /\ conns' = [conns EXCEPT ![nconns + 1] = NewConn]
    /\ late' = (late \/ quit)
    /\ wg' = wg + 1
    /\ gauge' = GaugeOpened(gauge)
    /\ UNCHANGED <<cfg, pc>>
    /\ UNCHANGED <<sigVars, supVars, resVars>>

\* where the loop goes on an Accept() error: "case <-p.quit: return", else
\* log "Failed to accept incoming connection" and continue
\* (OnAcceptErrorKill: a select on p.kill instead)
\* (OnAcceptErrorFatal: any Accept() error ends the loop)
OnAcceptErrorFatal == "drain"
OnAcceptErrorKill == IF kill THEN "drain" ELSE "accept"
OnAcceptError == IF quit THEN "drain" ELSE "accept"

\* l.Accept() fails: always on a closed listener, now and then on an open one
AcceptError ==
    /\ pc = "accept"
    /\ ls[inst].l \in {"open", "closed"}
    /\ pc' = OnAcceptError
    /\ UNCHANGED cfg
    /\ UNCHANGED <<sigVars, supVars, resVars, connVars>>

\* ---- the deferred calls of accept(), listen() and run() ----

\* wg.Wait() returns once the counter is zero (WaitSkipped: it never blocks)
WaitSkipped(n) == TRUE
WaitDone(n) == n = 0

\* accept(): defer { log "Waiting for open connections"; wg.Wait() }
Drain ==
    /\ pc = "drain"
    /\ WaitDone(wg)
    /\ pc' = "lclose"
    /\ UNCHANGED cfg
    /\ UNCHANGED <<sigVars, supVars, resVars, connVars>>

\* listen(): defer { _ = l.Close() }
\* (ListenerLeftToWatcher: a listen() without the deferred l.Close())
ListenerLeftToWatcher ==
    /\ pc = "lclose"
    /\ pc' = ListenDefer(up)
    /\ UNCHANGED <<cfg, up, ls, umask, oldUmask>>
    /\ UNCHANGED <<sigVars, supVars, connVars>>

DeferListenerClose ==
    /\ pc = "lclose"
    /\ ls' = [ls EXCEPT ![inst] = CloseListener(ls[inst])]
    /\ pc' = ListenDefer(up)
    /\ UNCHANGED <<cfg, up, umask, oldUmask>>
    /\ UNCHANGED <<sigVars, supVars, connVars>>

\* listen(): defer syscall.Umask(oldUmask)
DeferUmask ==
    /\ pc = "umask"
    /\ umask' = oldUmask
    /\ pc' = UpstreamDefer(up)
    /\ UNCHANGED <<cfg, up, ls, oldUmask>>
    /\ UNCHANGED <<sigVars, supVars, connVars>>

\* run(): defer mf.Close() (KeepFailover: the handle is left open)
KeepFailover ==
    /\ pc = "mfclose"
    /\ pc' = "mclose"
    /\ UNCHANGED <<cfg, up, ls, umask, oldUmask>>
    /\ UNCHANGED <<sigVars, supVars, connVars>>

DeferFailoverClose ==
    /\ pc = "mfclose"
    /\ up' = [up EXCEPT !.mf = "closed", !.mfcloses = up.mfcloses + 1]
    /\ pc' = "mclose"
    /\ UNCHANGED <<cfg, ls, umask, oldUmask>>
    /\ UNCHANGED <<sigVars, supVars, connVars>>

\* run(): defer m.Close() (KeepPrimary: the handle is left open)
KeepPrimary ==
    /\ pc = "mclose"
    /\ pc' = "recover"
    /\ UNCHANGED <<cfg, up, ls, umask, oldUmask>>
    /\ UNCHANGED <<sigVars, supVars, connVars>>

DeferPrimaryClose ==
    /\ pc = "mclose"
    /\ up' = [up EXCEPT !.m = "closed", !.mcloses = up.mcloses + 1]
    /\ pc' = "recover"
    /\ UNCHANGED <<cfg, ls, umask, oldUmask>>
    /\ UNCHANGED <<sigVars, supVars, connVars>>

\* run(): defer { if r := recover(); r != nil { log "Crashed"; ... } }; without
\* a panic run() returns ret to its caller, which is Run() for the first one
\* (RecoverNoRestart: a recover that logs and returns)
RecoverNoRestart ==
    /\ pc = "recover"
    /\ crashLog' = IF panicking THEN crashLog + 1 ELSE crashLog
    /\ panicking' = FALSE
    /\ res' = ret
    /\ runResult' = IF inst = 1 THEN ret ELSE runResult
    /\ pc' = "returned"
    /\ UNCHANGED <<inst, ret, panics, sleeps, restarts, cfg>>
    /\ UNCHANGED <<sigVars, resVars, connVars>>

\* (RecoverAlwaysRestarts: a deferred function that takes the restart path
\* whether or not recover() returned a panic)
RecoverAlwaysRestarts ==
    /\ pc = "recover"
    /\ crashLog' = crashLog + 1
    /\ panicking' = FALSE
    /\ pc' = "sleep"
    /\ UNCHANGED <<res, runResult>>
    /\ UNCHANGED <<inst, ret, panics, sleeps, restarts, cfg>>
    /\ UNCHANGED <<sigVars, resVars, connVars>>

DeferRecover ==
    /\ pc = "recover"
    /\ IF panicking
         THEN /\ crashLog' = crashLog + 1
              /\ panicking' = FALSE
              /\ pc' = "sleep"
              /\ UNCHANGED <<res, runResult>>
         ELSE /\ res' = ret
              /\ runResult' = IF inst = 1 THEN ret ELSE runResult
              /\ pc' = "returned"
              /\ UNCHANGED <<crashLog, panicking>>
    /\ UNCHANGED <<inst, ret, panics, sleeps, restarts, cfg>>
    /\ UNCHANGED <<sigVars, resVars, connVars>>

\* time.Sleep(restartSleep)
RestartSleep ==
    /\ pc = "sleep"
    /\ sleeps' = sleeps + 1
    /\ pc' = "restart"
    /\ UNCHANGED <<inst, panicking, ret, res, runResult, panics, crashLog,
                   restarts, cfg>>
    /\ UNCHANGED <<sigVars, resVars, connVars>>

\* log "Restarting"; go func() { err := p.run(); ... }(); the recovered run()
\* then returns the zero value of its result, nil; the new run() starts with
\* no upstream handle
\* (RestartInCaller: p.run() called again without "go", so that the caller of
\* the crashed run() is not returned to)
RestartInCaller ==
    /\ pc = "restart"
    /\ restarts' = restarts + 1
    /\ inst' = inst + 1
    /\ pc' = "connect"
    /\ ret' = "nil"
    /\ up' = NoUpstream
    /\ UNCHANGED <<res, runResult>>
    /\ UNCHANGED <<panicking, panics, crashLog, sleeps, cfg, ls, umask,
                   oldUmask>>
    /\ UNCHANGED <<sigVars, connVars>>

Restart ==
    /\ pc = "restart"
    /\ restarts' = restarts + 1
    /\ res' = "nil"
    /\ runResult' = IF inst = 1 THEN "nil" ELSE runResult
    /\ inst' = inst + 1
    /\ pc' = "connect"
    /\ ret' = "nil"
    /\ up' = NoUpstream
    /\ UNCHANGED <<panicking, panics, crashLog, sleeps, cfg, ls, umask,
                   oldUmask>>
    /\ UNCHANGED <<sigVars, connVars>>

\* the deferred call a panic raised at a position runs first
\* (PanicSkipsDefers: only the deferred recover of run() runs)
PanicSkipsDefers(at) == "recover"
PanicDefer(at) ==
    CASE at = "connect" -> "recover"
      [] at = "connect_f" -> "mclose"
      [] at = "listen" -> UpstreamDefer(up)
      [] at = "bind" -> ListenDefer(up)
      [] at = "accept" -> "drain"

\* a panic in the goroutine of run(): in mongo.Connect, in listen() or in the
\* accept loop
Panic ==
    /\ pc \in {"connect", "connect_f", "listen", "bind", "accept"}
    /\ panics < MaxPanics
    /\ panics' = panics + 1
    /\ panicking' = TRUE
    /\ pc' = PanicDefer(pc)
    /\ UNCHANGED <<inst, ret, res, runResult, crashLog, sleeps, restarts, cfg>>
    /\ UNCHANGED <<sigVars, resVars, connVars>>

\* ---- the session goroutine of one connection ----

\* handleConnection(..., c, m, mf, p.kill) returns
HandlerReturn(c) ==
    /\ conns[c].st = "handle"
    /\ conns' = [conns EXCEPT ![c].st = "close"]
    /\ UNCHANGED <<cfg, pc, nconns, late, wg, gauge>>
    /\ UNCHANGED <<sigVars, supVars, resVars>>

\* _ = c.Close(); log "Close"
SessionClose(c) ==
    /\ conns[c].st = "close"
    /\ conns' = [conns EXCEPT ![c].st = "signal", ![c].open = FALSE]
    /\ UNCHANGED <<cfg, pc, nconns, late, wg, gauge>>
    /\ UNCHANGED <<sigVars, supVars, resVars>>

\* close(done); wg.Done(); closed("connection_closed"): the session's last
\* three calls, none of which blocks
SessionFinish(c) ==
    /\ conns[c].st = "signal"
    /\ conns' = [conns EXCEPT ![c].st = "end", ![c].done = TRUE,
                              ![c].doneFirst = (conns[c].w = "select" /\ ~kill),
                              ![c].closes = conns[c].closes + 1]
    /\ wg' = wg - 1
    /\ gauge' = GaugeClosed(gauge)
    /\ UNCHANGED <<cfg, pc, nconns, late>>
    /\ UNCHANGED <<sigVars, supVars, resVars>>

\* a panic raised in the session goroutine, in handleConnection() or in one of
\* the calls after it: the goroutine function has no deferred recover(), and
\* the deferred recover() of run() belongs to another goroutine, so the panic
\* reaches the top of the goroutine and the Go runtime ends the process
SessionPanic(c) ==
    /\ conns[c].st = "handle"
    /\ conns' = [conns EXCEPT ![c].st = "fatal"]
    /\ UNCHANGED <<cfg, pc, nconns, late, wg, gauge>>
    /\ UNCHANGED <<sigVars, supVars, resVars>>

\* the process has ended on an unrecovered panic: no goroutine runs any more
ProcessDown == \E c \in ConnIds : conns[c].st = "fatal"

\* ---- the force-close watcher goroutine of one connection ----

\* select { case <-done: ; case <-p.kill: err := c.Close(); if err == nil
\* { log "Force closed connection" } }: one of the ready cases is chosen
\* (WatcherOnlyDone: a watcher without the p.kill case)
WatcherOnlyDone(c) ==
    /\ conns[c].w = "select"
    /\ conns[c].done
    /\ conns' = [conns EXCEPT ![c].w = "exit", ![c].doneFirst = FALSE]
    /\ UNCHANGED <<cfg, pc, nconns, late, wg, gauge>>
    /\ UNCHANGED <<sigVars, supVars, resVars>>

\* (WatcherAlwaysWarns: the warning is logged whatever c.Close() returned)
WatcherAlwaysWarns(c) ==
    /\ conns[c].w = "select"
    /\ \/ /\ conns[c].done
          /\ conns' = [conns EXCEPT ![c].w = "exit", ![c].doneFirst = FALSE]
       \/ /\ kill
          /\ conns' = [conns EXCEPT ![c].w = "exit", ![c].open = FALSE,
                                    ![c].doneFirst = FALSE,
                                    ![c].acted = TRUE,
                                    ![c].warned = TRUE]
    /\ UNCHANGED <<cfg, pc, nconns, late, wg, gauge>>
    /\ UNCHANGED <<sigVars, supVars, resVars>>

WatcherSelect(c) ==
    /\ conns[c].w = "select"
    /\ \/ /\ conns[c].done
          /\ conns' = [conns EXCEPT ![c].w = "exit", ![c].doneFirst = FALSE]
       \/ /\ kill
          /\ conns' = [conns EXCEPT ![c].w = "exit", ![c].open = FALSE,
                                    ![c].doneFirst = FALSE,
                                    ![c].acted = TRUE,
                                    ![c].warned = conns[c].open]
    /\ UNCHANGED <<cfg, pc, nconns, late, wg, gauge>>
    /\ UNCHANGED <<sigVars, supVars, resVars>>

\* ---- specification ----

Next ==
    \/ Shutdown
    \/ KillShutdown
    \/ KillClose
    \/ Run
    \/ Connect
    \/ ConnectFailover
    \/ ListenUmask
    \/ ListenBind
    \/ \E i \in RunIds : ListenWatcher(i)
    \/ AcceptConn
    \/ AcceptError
    \/ Drain
    \/ DeferListenerClose
    \/ DeferUmask
    \/ DeferFailoverClose
    \/ DeferPrimaryClose
    \/ DeferRecover
    \/ RestartSleep
    \/ Restart
    \/ Panic
    \/ \E c \in ConnIds : HandlerReturn(c)
    \/ \E c \in ConnIds : SessionClose(c)
    \/ \E c \in ConnIds : SessionFinish(c)
    \/ \E c \in ConnIds : WatcherSelect(c)

Spec == Init /\ [][Next]_vars

\* Executions in which the serve sequence does not panic, under the fairness
\* the Go scheduler gives: the listener-close watcher, the sessions and the
\* force-close watchers are goroutines that run when they can; run() goes on
\* whenever it is not blocked in Accept() on an open listener; a Kill() past
\* its Shutdown() goes on.  Client arrivals, Accept() errors on an open
\* listener, new Shutdown() and Kill() calls and the return of a backend
\* handler are left to the environment.
ServeStep ==
    \/ Connect
    \/ ConnectFailover
    \/ ListenUmask
    \/ ListenBind
    \/ (AcceptError /\ ls[inst].l = "closed")
    \/ Drain
    \/ DeferListenerClose
    \/ DeferUmask
    \/ DeferFailoverClose
    \/ DeferPrimaryClose
    \/ DeferRecover

NoPanicNext ==
    \/ Shutdown
    \/ KillShutdown
    \/ KillClose
    \/ Run
    \/ Connect
    \/ ConnectFailover
    \/ ListenUmask
    \/ ListenBind
    \/ \E i \in RunIds : ListenWatcher(i)
    \/ AcceptConn
    \/ AcceptError
    \/ Drain
    \/ DeferListenerClose
    \/ DeferUmask
    \/ DeferFailoverClose
    \/ DeferPrimaryClose
    \/ DeferRecover
    \/ \E c \in ConnIds : HandlerReturn(c)
    \/ \E c \in ConnIds : SessionClose(c)
    \/ \E c \in ConnIds : SessionFinish(c)
    \/ \E c \in ConnIds : WatcherSelect(c)

FairSpec ==
    /\ Init /\ [][NoPanicNext]_vars
    /\ WF_vars(ServeStep)
    /\ WF_vars(KillClose)
    /\ \A i \in RunIds : WF_vars(ListenWatcher(i))
    /\ \A c \in ConnIds : WF_vars(SessionClose(c))
    /\ \A c \in ConnIds : WF_vars(SessionFinish(c))
    /\ \A c \in ConnIds : WF_vars(WatcherSelect(c))

\* The executions of Spec together with those in which a session goroutine
\* panics: every goroutine steps only while the process is up.
SessionPanicNext ==
    \/ (~ProcessDown /\ Next)
    \/ (~ProcessDown /\ \E c \in ConnIds : SessionPanic(c))

SessionPanicSpec == Init /\ [][SessionPanicNext]_vars

\* The executions of FairSpec in which Shutdown() or Kill() has closed quit
\* before listen() binds its listener and starts the listener-close watcher.
EarlyNext == NoPanicNext /\ (ListenBind => quit)

EarlyServeStep == ServeStep /\ (ListenBind => quit)

EarlySpec ==
    /\ Init /\ [][EarlyNext]_vars
    /\ WF_vars(EarlyServeStep)
    /\ WF_vars(KillClose)
    /\ \A i \in RunIds : WF_vars(ListenWatcher(i))
    /\ \A c \in ConnIds : WF_vars(SessionClose(c))
    /\ \A c \in ConnIds : WF_vars(SessionFinish(c))
    /\ \A c \in ConnIds : WF_vars(WatcherSelect(c))

\* ---- properties ----

\* C1: whatever Shutdown() and Kill() calls are made, quit goes from open to
\* closed exactly once (it is closed as soon as one call has acted), kill at
\* most once, and no call lets a panic out to its caller.
ShutdownKillIdempotent ==
    /\ quitTrans = (IF quit THEN 1 ELSE 0)
    /\ killTrans = (IF kill THEN 1 ELSE 0)
    /\ ~escaped

\* a Kill() call is past its p.Shutdown() although quit and kill were both
\* closed by an earlier call: it has re-closed quit and will re-close kill
RepeatedKillInFlight == quit /\ kill /\ killMid /\ quitTrans = 1

\* C2: in every reachable state, kill closed implies quit closed.
ForcedImpliesGraceful == kill => quit

\* Kill() has completed: both signals are closed and no call is in flight
KillCompleted == kill /\ quit /\ ~killMid

\* C3 as stated: no Accept() returns a connection once quit is closed.
NoAcceptAfterQuit == ~late

\* C3 amended: an Accept() returns a connection only on an open listener, and
\* with quit closed only as long as the listener-close watcher of that listener
\* has not run; once the watcher has closed the listener nothing is accepted.
AcceptOnlyBeforeWatcherClose ==
    [][nconns' > nconns =>
        /\ ls[inst].l = "open"
        /\ (quit => ls[inst].lw = "wait")]_vars

\* a connection was accepted with quit closed, and afterwards the watcher
\* closed the listener under the accept loop
LateAcceptThenClosed ==
    late /\ pc = "accept" /\ ls[inst].lw = "done" /\ ls[inst].l = "closed"

\* C4 as stated: with quit closed the accept loop accepts at most one further
\* connection: none once it has accepted one with quit closed.
AtMostOneLateAccept == [][(quit /\ late) => nconns' = nconns]_vars

\* C4 amended: with quit closed and the listener closed by the watcher, the
\* loop is within its last iteration: Accept() cannot return a connection, it
\* fails, and on that error the loop returns instead of continuing.
LoopExit == AcceptError /\ pc' = "drain"
LoopContinue == AcceptError /\ pc' = "accept"
LastIterationAfterClose ==
    (quit /\ pc = "accept" /\ ls[inst].l = "closed") =>
        /\ ~ENABLED AcceptConn
        /\ ENABLED LoopExit
        /\ ~ENABLED LoopContinue

\* every connection was accepted by one loop, the last of them with quit
\* closed; then the watcher closed the listener and the loop is about to see
\* the Accept() error
LateAcceptsThenLastIteration ==
    /\ late /\ nconns = MaxConns /\ inst = 1
    /\ quit /\ pc = "accept" /\ ls[inst].l = "closed"

\* C5: in an execution without a panic, if quit is closed while run() is in
\* its accept loop (or the loop is entered with quit closed) and every backend
\* handler eventually returns, then eventually the listener is closed, the
\* loop has exited and run(), hence Run(), has returned nil.
Served == quit /\ pc = "accept"
GracefulReturn ==
    /\ pc = "returned" /\ res = "nil" /\ runResult = "nil"
    /\ ls[inst].l = "closed"
GracefulShutdownLive ==
    (\A c \in ConnIds : []<>(conns[c].st # "handle")) =>
        (Served ~> GracefulReturn)

\* Run() has returned nil after a shutdown requested while it was serving:
\* every connection was accepted before quit was closed and no panic occurred
ReturnedAfterServing ==
    /\ GracefulReturn /\ quit /\ ~kill
    /\ nconns = MaxConns /\ ~late /\ panics = 0

\* C6: run() is outside accept() and its deferred wg.Wait() only when every
\* session started so far has finished: accept() and listen() return only
\* after each session they started has seen its handler return, closed its
\* connection and signalled completion.
Finished(c) ==
    /\ conns[c].st = "end" /\ conns[c].done
    /\ ~conns[c].open
DrainedOnReturn ==
    pc \notin {"accept", "drain"} => \A c \in 1..nconns : Finished(c)

\* listen() is returning after its accept loop has served every connection
ListenReturnsDrained ==
    /\ pc = "lclose" /\ inst = 1 /\ nconns = MaxConns /\ wg = 0

\* C7: once kill is closed, every open connection of a session is eventually
\* closed, with no assumption on the backend handler; this covers connections
\* accepted after kill was closed.
ForcedCloseLive ==
    \A c \in ConnIds : ((kill /\ conns[c].open) ~> ~conns[c].open)

\* with kill closed a connection has been force-closed by its watcher while
\* its handler had not returned, and the loop can still accept another one
ForceClosedWhileAccepting ==
    /\ kill /\ ENABLED AcceptConn
    /\ \E c \in ConnIds :
        /\ conns[c].warned /\ conns[c].st = "handle" /\ ~conns[c].open

\* C8: the gauge is never negative, no connection is counted closed before it
\* was counted opened, and with no session goroutine running the gauge is 0.
Running(c) == conns[c].st \in {"handle", "close", "signal"}
GaugeConsistent ==
    /\ gauge >= 0
    /\ \A c \in ConnIds : conns[c].closes <= conns[c].opens
    /\ ((\A c \in ConnIds : ~Running(c)) => gauge = 0)

\* every connection was served and its session has ended: quiescence after
\* increments and decrements
GaugeBackToZero ==
    /\ nconns = MaxConns /\ gauge = 0
    /\ \A c \in ConnIds : conns[c].opens = 1 /\ conns[c].closes = 1

StartupFailure ==
    /\ ret = "errPrimary" =>
        /\ pc \in {"recover", "returned"}
        /\ ~up.fcontacted /\ up.mf = "none" /\ ls[inst].l = "none"
    /\ ret = "errFailover" =>
        /\ pc \in {"mclose", "recover", "returned"}
        /\ up.fcontacted /\ ls[inst].l = "none"
        /\ (pc \in {"recover", "returned"} => up.m = "closed" /\ up.mcloses = 1)
    /\ (ret \in {"errPrimary", "errFailover"} /\ pc = "returned") =>
        /\ res = ret
        /\ (inst = 1 => runResult = ret)

\* Run() has returned the failover's error after closing the primary
FailoverErrorReturned ==
    /\ inst = 1 /\ pc = "returned" /\ runResult = "errFailover"
    /\ up.m = "closed" /\ up.mf = "none"

\* Run() has returned the primary's error
PrimaryErrorReturned ==
    /\ inst = 1 /\ pc = "returned" /\ runResult = "errPrimary"
    /\ cfg.failover /\ ~up.fcontacted

\* C11: each upstream handle of an invocation of run() is closed at most once,
\* and exactly once when the invocation has run its deferred calls (on a
\* startup failure, a bind failure, a graceful return or a panic); a handle is
\* closed only when the listener of the invocation is closed or was never
\* opened and every session has finished its handler and closed its connection.
Exited == pc \in {"recover", "sleep", "restart", "returned"}
UpstreamClosedOnce ==
    /\ up.mcloses = (IF up.m = "closed" THEN 1 ELSE 0)
    /\ up.mfcloses = (IF up.mf = "closed" THEN 1 ELSE 0)
    /\ Exited => up.m # "open" /\ up.mf # "open"
    /\ (up.m = "closed" => up.mf # "open")
    /\ (up.m = "closed" \/ up.mf = "closed") =>
        /\ ls[inst].l \in {"none", "closed"}
        /\ \A c \in 1..nconns : Finished(c)

\* an invocation that served every connection has panicked in its accept loop
\* and has closed both of its handles, each once, on the way out
HandlesClosedAfterPanic ==
    /\ pc = "sleep" /\ panics = 1 /\ nconns = MaxConns
    /\ up.m = "closed" /\ up.mf = "closed"
    /\ up.mcloses = 1 /\ up.mfcloses = 1
    /\ ls[inst].l = "closed"

\* C12: the restart path is taken only after a panic.  An invocation of run()
\* logs "Crashed", sleeps or re-invokes run() only when it has panicked; one
\* that ends because the accept loop saw the Accept() error with quit closed,
\* or because a connect or the bind failed, panicked not at all, and returns
\* its result without a crash line, a sleep or a restart.
Panicked == panics = inst
RestartOnlyAfterPanic ==
    /\ [](inst >= 1 => panics \in {inst - 1, inst})
    /\ [](pc \in {"sleep", "restart"} => Panicked)
    /\ []((ret # "nil" \/ pc = "returned") =>
            ~Panicked /\ ~panicking /\ pc \notin {"sleep", "restart"})
    /\ [][(/\ inst >= 1
           /\ \/ crashLog' # crashLog
              \/ sleeps' # sleeps
              \/ restarts' # restarts
              \/ inst' # inst) => Panicked]_vars
    /\ [][(pc = "recover" /\ ~Panicked) =>
            /\ pc' \in {"recover", "returned"}
            /\ (pc' = "returned" => res' = ret)]_vars

\* a run() restarted after a panic has served, was shut down and has returned
\* nil: one crash line, one sleep, one restart, none of them for the shutdown
ShutdownAfterRestartReturns ==
    /\ pc = "returned" /\ inst = 2 /\ quit /\ res = "nil"
    /\ ls[2].l = "closed" /\ ls[2].lw = "done"
    /\ crashLog = 1 /\ sleeps = 1 /\ restarts = 1

\* C13: a panic raised inside a per-connection session is absorbed by the
\* session's goroutine: it does not take the process down, so the accept loop
\* and the other sessions keep running.
SessionPanicAbsorbed == ~ProcessDown

\* C14: for a unix-domain address the file-creation mask is zero while
\* listen() binds and is back at its prior value right after the bind: it has
\* its prior value when the accept loop starts and while connections are
\* served.
UmaskRestoredAfterBind ==
    cfg.unix =>
        /\ (pc = "bind" => umask = 0)
        /\ (pc \in {"accept", "drain"} => umask = PriorUmask)

\* C15: no missed wakeup on quit.  In the executions in which quit is closed
\* before listen() binds, every listener-close watcher starts with quit
\* already closed: it is not blocked, it eventually closes its listener, and,
\* every handler eventually returning, the accept loop so entered ends with
\* run() returning nil, the listener closed by the watcher and every session
\* finished.
NoMissedWakeup ==
    /\ [](\A i \in RunIds :
            ls[i].lw = "wait" => (quit /\ ENABLED ListenWatcher(i)))
    /\ \A i \in RunIds : (ls[i].lw = "wait" ~> ls[i].lw = "done")
    /\ (\A c \in ConnIds : []<>(conns[c].st # "handle")) =>
        (pc = "accept" ~>
            /\ pc = "returned" /\ res = "nil" /\ runResult = "nil"
            /\ ls[inst].l = "closed" /\ ls[inst].lw = "done"
            /\ \A c \in 1..nconns : Finished(c))

\* Shutdown() was called before the watcher started; the watcher has closed
\* the listener all the same, and run() has returned nil after serving the
\* connections that were accepted in between
EarlyShutdownReturned ==
    /\ pc = "returned" /\ res = "nil" /\ runResult = "nil"
    /\ ls[inst].lw = "done" /\ ls[inst].l = "closed"
    /\ nconns = MaxConns /\ late

\* C16: an Accept() error with quit open never ends the accept loop.  The loop
\* is left without a panic only on an Accept() error seen with quit closed;
\* with quit open an Accept() error sends the loop back to Accept(); so a
\* run() that is past its accept loop, or never entered it, with result nil
\* and without a panic, has quit closed.
Unwinding ==
    pc \in {"drain", "lclose", "umask", "mfclose", "mclose", "recover",
            "returned"}
TransientAcceptError ==
    /\ [][(pc = "accept" /\ pc' # "accept" /\ ~panicking') =>
            (quit /\ pc' = "drain")]_vars
    /\ []((pc = "accept" /\ ~quit) =>
            ENABLED LoopContinue /\ ~ENABLED LoopExit)
    /\ []((Unwinding /\ ~Panicked /\ ret = "nil") =>
            quit /\ ls[inst].l # "none")

\* the loop has accepted a connection, quit is open, and an Accept() error
\* now sends the loop back to Accept()
ErrorWhileServing ==
    /\ pc = "accept" /\ ~quit /\ nconns = 1 /\ ls[inst].l = "open"
    /\ ENABLED LoopContinue /\ ~ENABLED LoopExit

\* C17 as stated: a watcher that is in its select when done fires with kill
\* still open does not act on the connection afterwards (no Close call, no
\* warning); and a watcher acts only with kill closed, and warns only when its
\* Close closed a connection that was still open.
DoneFirstNoAction ==
    /\ [][\A c \in ConnIds :
            conns[c].doneFirst => ~conns'[c].acted]_vars
    /\ [](\A c \in ConnIds :
            /\ conns[c].acted => kill
            /\ conns[c].warned => conns[c].acted)

\* C17 amended: the watcher leaves its select on done or on kill.  It takes
\* the kill case only with kill closed and then calls c.Close(); the warning
\* is logged exactly when that call closed a connection that was still open.
\* With kill open it leaves only on done and does nothing.  When done has
\* fired and kill is closed too by the time the watcher runs, either case may
\* be taken: the kill case then calls Close on the connection the session has
\* already closed, which closes nothing and logs no warning.
ForceCloseRace ==
    /\ [](\A c \in ConnIds :
            /\ conns[c].acted => kill
            /\ conns[c].warned => conns[c].acted
            /\ conns[c].done => ~conns[c].open)
    /\ [][\A c \in ConnIds :
            (conns[c].w = "select" /\ conns'[c].w = "exit") =>
                /\ ~kill =>
                    /\ conns[c].done /\ ~conns'[c].acted
                    /\ conns'[c].open = conns[c].open
                /\ conns'[c].acted =>
                    /\ kill /\ ~conns'[c].open
                    /\ conns'[c].warned = conns[c].open
                /\ (conns[c].done /\ conns'[c].acted) => ~conns'[c].warned
                /\ ~conns[c].done => conns'[c].acted]_vars

\* both outcomes of the kill case: one connection was force-closed while its
\* handler was running (warning), and on another, whose session had finished,
\* the watcher still called Close (no warning)
BothKillOutcomes ==
    /\ \E c \in ConnIds :
        conns[c].acted /\ conns[c].warned /\ conns[c].st = "handle"
    /\ \E c \in ConnIds :
        conns[c].acted /\ ~conns[c].warned /\ conns[c].done

\* C18 as stated: Close is invoked on the listener of a listen() invocation
\* exactly one time: never more than once, and once when listen() has ended.
DeferredCloseRan(i) ==
    /\ ls[i].l # "none"
    /\ \/ i < inst
       \/ pc \in {"umask", "mfclose", "mclose", "recover", "sleep", "restart",
                  "returned"}
ListenerClosedOnce ==
    \A i \in RunIds :
        /\ ls[i].lcloses <= 1
        /\ DeferredCloseRan(i) => ls[i].lcloses = 1

\* C18 amended: the listener of a listen() invocation goes from open to
\* closed once and stays closed, and it is closed when listen() has ended.
\* Close is invoked on it by the deferred call of listen(), once, and by the
\* listener-close watcher, once and only with quit closed: two invocations in
\* all after a shutdown, of which the later one finds the listener closed.
CloseCalls(i) ==
    (IF DeferredCloseRan(i) THEN 1 ELSE 0) +
    (IF ls[i].lw = "done" THEN 1 ELSE 0)
ListenerCloseCalls ==
    /\ [](\A i \in RunIds :
            /\ ls[i].lcloses = CloseCalls(i)
            /\ ls[i].l = "closed" <=> ls[i].lcloses >= 1
            /\ ls[i].lw = "done" => quit
            /\ DeferredCloseRan(i) => ls[i].l = "closed")
    /\ [][\A i \in RunIds :
            ls[i].l = "closed" => ls'[i].l = "closed"]_vars

\* Shutdown() after a crash: the listener of the crashed invocation was closed
\* by its deferred call and again by its watcher, and so was the listener of
\* the restarted invocation, which has returned
ClosedTwiceAfterCrash ==
    /\ inst = 2 /\ pc = "returned" /\ quit
    /\ ls[1].lcloses = 2 /\ ls[2].lcloses = 2

\* C19 as stated: whenever Run() has returned nil, quit is closed and no
\* serve sequence is running or about to run.
RunNilMeansShutdown ==
    runResult = "nil" => (quit /\ pc = "returned")

\* C19 amended: Run() returns nil in two cases.  Without a panic of the first
\* run(): quit is closed, that run() has returned and nothing runs afterwards.
\* After a recovered panic of the first run(): Run() returns nil as soon as
\* the restart is launched, whatever quit is, and a later run() goes on in the
\* restart goroutine.  Run() has returned nothing but nil once a restart was
\* launched.
RunNilCases ==
    /\ (runResult = "nil" /\ restarts = 0) =>
        /\ quit /\ pc = "returned" /\ inst = 1 /\ panics = 0
        /\ ls[1].l = "closed"
    /\ restarts >= 1 =>
        /\ runResult = "nil" /\ inst >= 2 /\ panics >= 1

\* Run() has returned nil after a panic; quit is open and the restarted run()
\* is serving a connection
RunNilWhileServing ==
    /\ runResult = "nil" /\ ~quit /\ inst = 2 /\ pc = "accept"
    /\ \E c \in ConnIds : conns[c].st = "handle"

\* C20: with one call of Run(), at most one serve instance is live across
\* crash-restart cycles.  At most one listener is open at any time, and it is
\* the listener of the current run(); the listeners of earlier invocations are
\* closed; and a restarted run() starts only when the crashed one holds no
\* open upstream handle and no open listener and all its sessions have
\* finished.
OpenListeners == {i \in RunIds : ls[i].l = "open"}
OneLiveInstance ==
    /\ [](/\ Cardinality(OpenListeners) <= 1
          /\ \A i \in RunIds : i < inst => ls[i].l \in {"none", "closed"}
          /\ \A i \in RunIds : i > inst => ls[i] = NoListener)
    /\ [][(inst >= 1 /\ inst' # inst) =>
            /\ inst' = inst + 1 /\ pc' = "connect"
            /\ up.m # "open" /\ up.mf # "open"
            /\ ls[inst].l # "open"
            /\ wg = 0 /\ \A c \in 1..nconns : Finished(c)
            /\ up'.m = "none" /\ up'.mf = "none"]_vars

\* a run() that served every connection has crashed; the restarted run() is
\* about to connect, the old listener is closed and every session has finished
RestartAfterDrain ==
    /\ inst = 2 /\ pc = "connect" /\ nconns = MaxConns
    /\ ls[1].l = "closed" /\ ls[1].lw = "wait" /\ ~quit
    /\ \A c \in ConnIds : Finished(c)

====
